---- MODULE Spec2Model ----
(***************************************************************************)
(* Model of gcloud/logging/_gax.py: the GAX wrappers _LoggingAPI and       *)
(* _SinksAPI and the mapping <-> protobuf converters they use.             *)
(*                                                                         *)
(* The wrappers own no state between calls.  The state of the model is one *)
(* call on the module: which function is called, with which arguments,     *)
(* which RPCs it has issued on the wrapped gax_api object, and how it      *)
(* ended (a returned value or a raised exception).                         *)
(* The wrapped gax_api object is the environment: the reply of every RPC   *)
(* is a nondeterministic choice among the replies a server can give.       *)
(***************************************************************************)
EXTENDS Integers, Sequences, FiniteSets, TLC

VARIABLES
    method,    \* name of the function called
    request,   \* its arguments, and the reply the server gives to its RPC
    rpc_log,   \* the calls it has made on self._gax_api, in order
    result     \* Pending until it ends, then Return(value) or Raise(exc)

vars == <<method, request, rpc_log, result>>

----------------------------------------------------------------------------
(* Python values.  A value whose Python type decides a branch of the code  *)
(* carries its type in the field py.                                       *)

PyNone == [py |-> "None"]
PyStr(s) == [py |-> "str", s |-> s]
PyInt(n) == [py |-> "int", n |-> n]

\* bool(v): None is false, a str is false when empty, an int when zero;
\* an object whose class defines neither __bool__ nor __len__ (object(),
\* CallOptions, a protobuf message) is true.
PyTruth(v) ==
    CASE v.py = "None" -> FALSE
      [] v.py = "str"  -> v.s # ""
      [] v.py = "int"  -> v.n # 0
      [] OTHER         -> TRUE

\* "a or b"
PyOr(a, b) == IF PyTruth(a) THEN a ELSE b

Return(v) == [kind |-> "return", value |-> v]
Raise(e)  == [kind |-> "raise", value |-> e]
Pending   == [kind |-> "pending", value |-> PyNone]

\* One call on the gax_api object.
Rpc(rpc_name, rpc_args) == [rpc |-> rpc_name, args |-> rpc_args]

\* What a function did: the RPCs it issued and how it ended.
Outcome(rpcs, res) == [rpc_log |-> rpcs, result |-> res]

----------------------------------------------------------------------------
(* Errors of the transport.                                                *)

StatusCodes ==
    {"NOT_FOUND", "FAILED_PRECONDITION", "PERMISSION_DENIED", "UNAVAILABLE"}

\* google.gax.errors.GaxError wrapping an RPC error that carries a status.
GaxError(status) == [py |-> "GaxError", cause |-> [code |-> status]]

\* An exception raised by the RPC that is not a GaxError.
OtherError == [py |-> "RuntimeError", cause |-> [code |-> "UNKNOWN"]]

RpcErrors == {GaxError(c) : c \in StatusCodes} \cup {OtherError}

exc_to_code(cause) == cause.code

Conflict(path) == [py |-> "Conflict", message |-> path]
NotFound(path) == [py |-> "NotFound", message |-> path]

----------------------------------------------------------------------------
(* Sinks.                                                                  *)

Projects     == {"p1", "p2"}
SinkNames    == {"s1", "s2"}
Filters      == {"", "severity>=ERROR"}
Destinations == {"", "storage.googleapis.com/b"}

\* LogSink(name=, filter=, destination=): the message has a fourth field,
\* output_version_format, left at its default.
LogSink(name_, filter_, destination_) ==
    [py |-> "message", name |-> name_, destination |-> destination_,
     filter |-> filter_, output_version_format |-> 0]

\* Mutant: destination and filter exchanged.
_log_sink_pb_to_mapping_swapped(sink_pb) ==
    [name |-> sink_pb.name,
     destination |-> sink_pb.filter,
     filter |-> sink_pb.destination]

_log_sink_pb_to_mapping(sink_pb) ==
    [name |-> sink_pb.name,
     destination |-> sink_pb.destination,
     filter |-> sink_pb.filter]

\* Sinks the server may hold and send back.
ServerSinks ==
    {[py |-> "message", name |-> "projects/" \o p \o "/sinks/" \o s,
      destination |-> d, filter |-> f, output_version_format |-> v] :
        p \in {"p1"}, s \in SinkNames, d \in {"pubsub.googleapis.com/t"},
        f \in {"normalized"}, v \in {0, 1}}

sink_path(project, sink_name) ==
    "projects/" \o project \o "/sinks/" \o sink_name

\* Mutant: tests for NOT_FOUND where the create call tests for
\* FAILED_PRECONDITION.
sink_create_wrong_status(project, sink_name, filter_, destination, reply) ==
    LET options == PyNone
        parent  == "projects/" \o project
        path    == sink_path(project, sink_name)
        sink_pb == LogSink(path, filter_, destination)
        rpcs    == <<Rpc("create_sink",
                         [parent |-> parent, sink |-> sink_pb,
                          options |-> options])>>
    IN  IF reply.kind = "raise"
        THEN IF reply.value.py = "GaxError"
                /\ exc_to_code(reply.value.cause) = "NOT_FOUND"
             THEN Outcome(rpcs, Raise(Conflict(path)))
             ELSE Outcome(rpcs, Raise(reply.value))
        ELSE Outcome(rpcs, Return(PyNone))

sink_create(project, sink_name, filter_, destination, reply) ==
    LET options == PyNone
        parent  == "projects/" \o project
        path    == sink_path(project, sink_name)
        sink_pb == LogSink(path, filter_, destination)
        rpcs    == <<Rpc("create_sink",
                         [parent |-> parent, sink |-> sink_pb,
                          options |-> options])>>
    IN  IF reply.kind = "raise"
        THEN IF reply.value.py = "GaxError"
                /\ exc_to_code(reply.value.cause) = "FAILED_PRECONDITION"
             THEN Outcome(rpcs, Raise(Conflict(path)))
             ELSE Outcome(rpcs, Raise(reply.value))
        ELSE Outcome(rpcs, Return(PyNone))

\* Mutant: asks again when the server is unavailable.
sink_get_retry(project, sink_name, reply) ==
    LET options == PyNone
        path    == sink_path(project, sink_name)
        call    == Rpc("get_sink", [path |-> path, options |-> options])
    IN  IF reply.kind = "raise"
        THEN IF reply.value.py = "GaxError"
                /\ exc_to_code(reply.value.cause) = "NOT_FOUND"
             THEN Outcome(<<call>>, Raise(NotFound(path)))
             ELSE IF reply.value.py = "GaxError"
                     /\ exc_to_code(reply.value.cause) = "UNAVAILABLE"
             THEN Outcome(<<call, call>>, Raise(reply.value))
             ELSE Outcome(<<call>>, Raise(reply.value))
        ELSE Outcome(<<call>>, Return(_log_sink_pb_to_mapping(reply.value)))

sink_get(project, sink_name, reply) ==
    LET options == PyNone
        path    == sink_path(project, sink_name)
        rpcs    == <<Rpc("get_sink", [path |-> path, options |-> options])>>
    IN  IF reply.kind = "raise"
        THEN IF reply.value.py = "GaxError"
                /\ exc_to_code(reply.value.cause) = "NOT_FOUND"
             THEN Outcome(rpcs, Raise(NotFound(path)))
             ELSE Outcome(rpcs, Raise(reply.value))
        ELSE Outcome(rpcs, Return(_log_sink_pb_to_mapping(reply.value)))

\* Mutant: returns the mapping of the sink the server sent back.
sink_update_server_copy(project, sink_name, filter_, destination, reply) ==
    LET options == PyNone
        path    == sink_path(project, sink_name)
        sink_pb == LogSink(path, filter_, destination)
        rpcs    == <<Rpc("update_sink",
                         [path |-> path, sink |-> sink_pb,
                          options |-> options])>>
    IN  IF reply.kind = "raise"
        THEN IF reply.value.py = "GaxError"
                /\ exc_to_code(reply.value.cause) = "NOT_FOUND"
             THEN Outcome(rpcs, Raise(NotFound(path)))
             ELSE Outcome(rpcs, Raise(reply.value))
        ELSE Outcome(rpcs, Return(_log_sink_pb_to_mapping(reply.value)))

sink_update(project, sink_name, filter_, destination, reply) ==
    LET options == PyNone
        path    == sink_path(project, sink_name)
        sink_pb == LogSink(path, filter_, destination)
        rpcs    == <<Rpc("update_sink",
                         [path |-> path, sink |-> sink_pb,
                          options |-> options])>>
    IN  IF reply.kind = "raise"
        THEN IF reply.value.py = "GaxError"
                /\ exc_to_code(reply.value.cause) = "NOT_FOUND"
             THEN Outcome(rpcs, Raise(NotFound(path)))
             ELSE Outcome(rpcs, Raise(reply.value))
        ELSE Outcome(rpcs, Return(_log_sink_pb_to_mapping(sink_pb)))

\* Mutant: reports every GaxError as NotFound.
sink_delete_any_status(project, sink_name, reply) ==
    LET options == PyNone
        path    == sink_path(project, sink_name)
        rpcs    == <<Rpc("delete_sink", [path |-> path, options |-> options])>>
    IN  IF reply.kind = "raise"
        THEN IF reply.value.py = "GaxError"
             THEN Outcome(rpcs, Raise(NotFound(path)))
             ELSE Outcome(rpcs, Raise(reply.value))
        ELSE Outcome(rpcs, Return(PyNone))

sink_delete(project, sink_name, reply) ==
    LET options == PyNone
        path    == sink_path(project, sink_name)
        rpcs    == <<Rpc("delete_sink", [path |-> path, options |-> options])>>
    IN  IF reply.kind = "raise"
        THEN IF reply.value.py = "GaxError"
                /\ exc_to_code(reply.value.cause) = "NOT_FOUND"
             THEN Outcome(rpcs, Raise(NotFound(path)))
             ELSE Outcome(rpcs, Raise(reply.value))
        ELSE Outcome(rpcs, Return(PyNone))

----------------------------------------------------------------------------
(* Paging.                                                                 *)

\* google.gax.INITIAL_PAGE, an object() used as the first-page sentinel.
INITIAL_PAGE == [py |-> "object", id |-> "INITIAL_PAGE"]

\* google.gax.CallOptions(page_token=...)
CallOptions(token) == [py |-> "CallOptions", page_token |-> token]

\* Mutant: tests the token's truth, not "is None", so that an empty token
\* becomes the sentinel.
_build_paging_options_falsy(page_token) ==
    LET token == IF ~PyTruth(page_token) THEN INITIAL_PAGE ELSE page_token
    IN  CallOptions(token)

_build_paging_options(page_token) ==
    LET token == IF page_token = PyNone THEN INITIAL_PAGE ELSE page_token
    IN  CallOptions(token)

----------------------------------------------------------------------------
(* Log entry messages.  A message starts with every field at its default.  *)

EmptyMap == [k \in {} |-> ""]

MonitoredResource == [py |-> "message", type |-> "", labels |-> EmptyMap]
Timestamp(seconds_, nanos_) ==
    [py |-> "message", seconds |-> seconds_, nanos |-> nanos_]
Struct == [py |-> "message", fields |-> EmptyMap]
AnyMessage == [py |-> "message", type_url |-> "", value |-> EmptyMap]

\* google.logging.type.HttpRequest: the nine fields the module copies and
\* one it does not know.
HttpRequest ==
    [py |-> "message", request_method |-> "", request_url |-> "",
     status |-> 0, referer |-> "", user_agent |-> "", cache_hit |-> FALSE,
     request_size |-> 0, response_size |-> 0, remote_ip |-> "",
     validated_with_origin_server |-> FALSE]

LogEntryOperation ==
    [py |-> "message", id |-> "", producer |-> "",
     first |-> FALSE, last |-> FALSE]

LogEntry ==
    [py |-> "message", log_name |-> "", resource |-> MonitoredResource,
     severity |-> 0, insert_id |-> "", timestamp |-> Timestamp(0, 0),
     labels |-> EmptyMap, text_payload |-> "", json_payload |-> Struct,
     proto_payload |-> AnyMessage, http_request |-> HttpRequest,
     operation |-> LogEntryOperation]

\* dict[key] = value for every item of new
MapUpdate(old, new) == new @@ old

_log_entry_pb_to_mapping(entry_pb) ==
    LET mapping ==
            [log_name |-> entry_pb.log_name,
             resource |-> entry_pb.resource,
             severity |-> entry_pb.severity,
             insert_id |-> entry_pb.insert_id,
             timestamp |-> entry_pb.timestamp,
             labels |-> entry_pb.labels,
             text_payload |-> entry_pb.text_payload,
             json_payload |-> entry_pb.json_payload,
             proto_payload |-> entry_pb.proto_payload]
        request_ == entry_pb.http_request
        http ==
            IF PyTruth(entry_pb.http_request)
            THEN "http_request" :>
                    [request_method |-> request_.request_method,
                     request_url |-> request_.request_url,
                     status |-> request_.status,
                     referer |-> request_.referer,
                     user_agent |-> request_.user_agent,
                     cache_hit |-> request_.cache_hit,
                     request_size |-> request_.request_size,
                     response_size |-> request_.response_size,
                     remote_ip |-> request_.remote_ip]
            ELSE EmptyMap
        operation == entry_pb.operation
        op ==
            IF PyTruth(entry_pb.operation)
            THEN "operation" :>
                    [producer |-> operation.producer,
                     id |-> operation.id,
                     first |-> operation.first,
                     last |-> operation.last]
            ELSE EmptyMap
    IN  MapUpdate(MapUpdate(mapping, http), op)

optional_request_keys ==
    {"request_method", "request_url", "status", "referer", "user_agent",
     "cache_hit", "request_size", "response_size", "remote_ip"}

\* Mutant: copies every key of info that names a field of the message.
_http_request_mapping_to_pb_all_keys(info, request_pb) ==
    [f \in DOMAIN request_pb |->
        IF f \in DOMAIN info THEN info[f] ELSE request_pb[f]]

\* The request message after the loop over optional_request_keys.
_http_request_mapping_to_pb(info, request_pb) ==
    [f \in DOMAIN request_pb |->
        IF f \in optional_request_keys /\ f \in DOMAIN info
        THEN info[f] ELSE request_pb[f]]

KeyError(key) == [py |-> "KeyError", message |-> key]
ValueError(what) == [py |-> "ValueError", message |-> what]
ParseError(what) == [py |-> "ParseError", message |-> what]

\* A message being filled in, and the exception that stopped it (PyNone
\* while none has).
Building(pb_, exc_) == [pb |-> pb_, exc |-> exc_]

_log_operation_mapping_to_pb(info, operation_pb) ==
    IF "producer" \notin DOMAIN info
    THEN Building(operation_pb, KeyError("producer"))
    ELSE IF "id" \notin DOMAIN info
    THEN Building([operation_pb EXCEPT !.producer = info["producer"]],
                  KeyError("id"))
    ELSE LET o1 == [operation_pb EXCEPT !.producer = info["producer"],
                                        !.id = info["id"]]
             o2 == IF "first" \in DOMAIN info
                   THEN [o1 EXCEPT !.first = info["first"]] ELSE o1
             o3 == IF "last" \in DOMAIN info
                   THEN [o2 EXCEPT !.last = info["last"]] ELSE o2
         IN  Building(o3, PyNone)

\* google.logging.type.LogSeverity
LogSeverityNames ==
    [DEFAULT |-> 0, DEBUG |-> 100, INFO |-> 200, NOTICE |-> 300,
     WARNING |-> 400, ERROR |-> 500, CRITICAL |-> 600, ALERT |-> 700,
     EMERGENCY |-> 800]

\* gcloud._helpers._datetime_to_pb_timestamp: a datetime, here its
\* microseconds since the epoch, as seconds and nanoseconds.
_datetime_to_pb_timestamp(when) ==
    Timestamp(when.micros \div 1000000, (when.micros % 1000000) * 1000)

\* Parse(json.dumps(payload), any_pb): the JSON form of an Any names its
\* type under "@type"; the other members are the fields of the value.
ParseAny(payload, any_pb) ==
    IF "@type" \notin DOMAIN payload
    THEN Building(any_pb, ParseError("@type"))
    ELSE Building([any_pb EXCEPT
                     !.type_url = payload["@type"],
                     !.value = [k \in DOMAIN payload \ {"@type"} |->
                                    payload[k]]],
                  PyNone)

optional_scalar_keys == {"log_name", "insert_id", "text_payload"}

set_scalars(mapping, pb) ==
    [f \in DOMAIN pb |->
        IF f \in optional_scalar_keys /\ f \in DOMAIN mapping
        THEN mapping[f] ELSE pb[f]]

set_resource(mapping, st) ==
    IF st.exc # PyNone \/ "resource" \notin DOMAIN mapping THEN st
    ELSE IF "type" \notin DOMAIN mapping["resource"]
    THEN Building(st.pb, KeyError("type"))
    ELSE Building([st.pb EXCEPT !.resource.type = mapping["resource"]["type"]],
                  PyNone)

set_severity(mapping, st) ==
    IF st.exc # PyNone \/ "severity" \notin DOMAIN mapping THEN st
    ELSE LET severity == mapping["severity"]
         IN  IF severity.py = "str"
             THEN IF severity.s \in DOMAIN LogSeverityNames
                  THEN Building([st.pb EXCEPT
                                   !.severity = LogSeverityNames[severity.s]],
                                PyNone)
                  ELSE Building(st.pb, ValueError(severity.s))
             ELSE Building([st.pb EXCEPT !.severity = severity.n], PyNone)

set_timestamp(mapping, st) ==
    IF st.exc # PyNone \/ "timestamp" \notin DOMAIN mapping THEN st
    ELSE Building([st.pb EXCEPT
                     !.timestamp =
                        _datetime_to_pb_timestamp(mapping["timestamp"])],
                  PyNone)

set_labels(mapping, st) ==
    IF st.exc # PyNone \/ "labels" \notin DOMAIN mapping THEN st
    ELSE Building([st.pb EXCEPT
                     !.labels = MapUpdate(st.pb.labels, mapping["labels"])],
                  PyNone)

set_json_payload(mapping, st) ==
    IF st.exc # PyNone \/ "json_payload" \notin DOMAIN mapping THEN st
    ELSE Building([st.pb EXCEPT
                     !.json_payload.fields =
                        MapUpdate(st.pb.json_payload.fields,
                                  mapping["json_payload"])],
                  PyNone)

set_proto_payload(mapping, st) ==
    IF st.exc # PyNone \/ "proto_payload" \notin DOMAIN mapping THEN st
    ELSE LET parsed == ParseAny(mapping["proto_payload"], st.pb.proto_payload)
         IN  Building([st.pb EXCEPT !.proto_payload = parsed.pb], parsed.exc)

set_http_request(mapping, st) ==
    IF st.exc # PyNone \/ "http_request" \notin DOMAIN mapping THEN st
    ELSE Building([st.pb EXCEPT
                     !.http_request =
                        _http_request_mapping_to_pb(mapping["http_request"],
                                                    st.pb.http_request)],
                  PyNone)

set_operation(mapping, st) ==
    IF st.exc # PyNone \/ "operation" \notin DOMAIN mapping THEN st
    ELSE LET filled == _log_operation_mapping_to_pb(mapping["operation"],
                                                    st.pb.operation)
         IN  Building([st.pb EXCEPT !.operation = filled.pb], filled.exc)

_log_entry_mapping_to_pb(mapping) ==
    LET s0 == Building(set_scalars(mapping, LogEntry), PyNone)
        s1 == set_resource(mapping, s0)
        s2 == set_severity(mapping, s1)
        s3 == set_timestamp(mapping, s2)
        s4 == set_labels(mapping, s3)
        s5 == set_json_payload(mapping, s4)
        s6 == set_proto_payload(mapping, s5)
        s7 == set_http_request(mapping, s6)
        s8 == set_operation(mapping, s7)
    IN  IF s8.exc = PyNone THEN Return(s8.pb) ELSE Raise(s8.exc)

----------------------------------------------------------------------------
(* _LoggingAPI and the list call of _SinksAPI.                             *)

\* The page iterator a list RPC returns: the page next() yields and the
\* token it then reports.
PageIterator(page_, token_) ==
    [py |-> "PageIterator", page |-> page_, page_token |-> token_]

list_entries(projects, filter_, order_by, page_size, page_token, reply) ==
    LET options == _build_paging_options(page_token)
        rpcs == <<Rpc("list_log_entries",
                      [projects |-> projects, filter_ |-> filter_,
                       order_by |-> order_by, page_size |-> page_size,
                       options |-> options])>>
    IN  IF reply.kind = "raise"
        THEN Outcome(rpcs, Raise(reply.value))
        ELSE LET page_iter == reply.value
                 entries == [i \in 1..Len(page_iter.page) |->
                                _log_entry_pb_to_mapping(page_iter.page[i])]
                 token == PyOr(page_iter.page_token, PyNone)
             IN  Outcome(rpcs, Return([items |-> entries, token |-> token]))

list_sinks(project, page_size, page_token, reply) ==
    LET options == _build_paging_options(page_token)
        rpcs == <<Rpc("list_sinks",
                      [project |-> project, page_size |-> page_size,
                       options |-> options])>>
    IN  IF reply.kind = "raise"
        THEN Outcome(rpcs, Raise(reply.value))
        ELSE LET page_iter == reply.value
                 sinks == [i \in 1..Len(page_iter.page) |->
                              _log_sink_pb_to_mapping(page_iter.page[i])]
                 token == PyOr(page_iter.page_token, PyNone)
             IN  Outcome(rpcs, Return([items |-> sinks, token |-> token]))

\* Mutant: the entries are sent in reverse order.
write_entries_reversed(entries, logger_name, resource, labels, reply) ==
    LET options == PyNone
        partial_success == FALSE
        converted == [i \in 1..Len(entries) |->
                         _log_entry_mapping_to_pb(entries[i])]
        failed == {i \in 1..Len(entries) : converted[i].kind = "raise"}
    IN  IF failed # {}
        THEN LET first == CHOOSE i \in failed : \A n \in failed : i <= n
             IN  Outcome(<<>>, Raise(converted[first].value))
        ELSE LET entry_pbs == [i \in 1..Len(entries) |->
                                  converted[Len(entries) + 1 - i].value]
                 rpcs == <<Rpc("write_log_entries",
                               [entries |-> entry_pbs,
                                logger_name |-> logger_name,
                                resource |-> resource, labels |-> labels,
                                partial_success |-> partial_success,
                                options |-> options])>>
             IN  IF reply.kind = "raise"
                 THEN Outcome(rpcs, Raise(reply.value))
                 ELSE Outcome(rpcs, Return(PyNone))

\* Mutant: converts and sends as it goes, so that the entries before the
\* one that fails are written.
write_entries_prefix(entries, logger_name, resource, labels, reply) ==
    LET options == PyNone
        partial_success == FALSE
        converted == [i \in 1..Len(entries) |->
                         _log_entry_mapping_to_pb(entries[i])]
        failed == {i \in 1..Len(entries) : converted[i].kind = "raise"}
        first == IF failed = {} THEN Len(entries) + 1
                 ELSE CHOOSE i \in failed : \A n \in failed : i <= n
        entry_pbs == [i \in 1..(first - 1) |-> converted[i].value]
        rpcs == <<Rpc("write_log_entries",
                      [entries |-> entry_pbs, logger_name |-> logger_name,
                       resource |-> resource, labels |-> labels,
                       partial_success |-> partial_success,
                       options |-> options])>>
    IN  IF failed # {}
        THEN IF first = 1
             THEN Outcome(<<>>, Raise(converted[first].value))
             ELSE Outcome(rpcs, Raise(converted[first].value))
        ELSE IF reply.kind = "raise"
             THEN Outcome(rpcs, Raise(reply.value))
             ELSE Outcome(rpcs, Return(PyNone))

write_entries(entries, logger_name, resource, labels, reply) ==
    LET options == PyNone
        partial_success == FALSE
        converted == [i \in 1..Len(entries) |->
                         _log_entry_mapping_to_pb(entries[i])]
        failed == {i \in 1..Len(entries) : converted[i].kind = "raise"}
    IN  IF failed # {}
        THEN \* the list comprehension stops at the first entry that raises
             LET first == CHOOSE i \in failed : \A n \in failed : i <= n
             IN  Outcome(<<>>, Raise(converted[first].value))
        ELSE LET entry_pbs == [i \in 1..Len(entries) |-> converted[i].value]
                 rpcs == <<Rpc("write_log_entries",
                               [entries |-> entry_pbs,
                                logger_name |-> logger_name,
                                resource |-> resource, labels |-> labels,
                                partial_success |-> partial_success,
                                options |-> options])>>
             IN  IF reply.kind = "raise"
                 THEN Outcome(rpcs, Raise(reply.value))
                 ELSE Outcome(rpcs, Return(PyNone))

logger_delete(project, logger_name, reply) ==
    LET options == PyNone
        path == "projects/" \o project \o "/logs/" \o logger_name
        rpcs == <<Rpc("delete_log", [path |-> path, options |-> options])>>
    IN  IF reply.kind = "raise"
        THEN Outcome(rpcs, Raise(reply.value))
        ELSE Outcome(rpcs, Return(PyNone))

----------------------------------------------------------------------------
(* The inputs of the calls.                                                *)

MaxEntries == 3    \* longest list of entries given to write_entries
MaxPage == 2       \* longest page a list RPC returns

\* The sequences over S of length at most n.
SeqUpTo(S, n) == UNION {[1..m -> S] : m \in 0..n}

\* Either no item, or key bound to one of values.
Opt(key, values) == {EmptyMap} \cup {key :> v : v \in values}

PageTokens == {PyNone, PyStr(""), PyStr("abc")}
IteratorTokens == {PyStr(""), PyStr("next")}
PageSizes == {0, 10}

\* Messages a server may return in a page of entries.
EntryPbs ==
    {[LogEntry EXCEPT !.log_name = l, !.severity = s, !.labels = lb,
                      !.http_request = h, !.operation = o] :
        l \in {"", "projects/p1/logs/l1"}, s \in {0, 500},
        lb \in {EmptyMap, "a" :> "b"},
        h \in {HttpRequest,
               [HttpRequest EXCEPT !.status = 200],
               [HttpRequest EXCEPT !.request_method = "GET",
                                   !.cache_hit = TRUE,
                                   !.validated_with_origin_server = TRUE]},
        o \in {LogEntryOperation,
               [LogEntryOperation EXCEPT !.producer = "p", !.id = "1"],
               [LogEntryOperation EXCEPT !.last = TRUE]}}

EntryPbPool ==
    {LogEntry,
     [LogEntry EXCEPT !.http_request.status = 200],
     [LogEntry EXCEPT !.operation.producer = "p", !.operation.id = "1",
                      !.text_payload = "hello"]}

\* Entry mappings: each key absent or present; the three payload keys are
\* alternatives of one another, as in the API's entry resource.
ScalarItems ==
    {EmptyMap, "log_name" :> "projects/p1/logs/l1",
     ("log_name" :> "projects/p1/logs/l1") @@ ("insert_id" :> "i1")}

PayloadItems ==
    {EmptyMap,
     "text_payload" :> "hello",
     "json_payload" :> ("k" :> "v"),
     "proto_payload" :> (("@type" :> "type.googleapis.com/T") @@ ("f" :> "x")),
     "proto_payload" :> ("f" :> "x")}

ResourceItems ==
    Opt("resource",
        {"type" :> "global",
         ("type" :> "gce_instance") @@ ("labels" :> ("zone" :> "z1")),
         EmptyMap})

SeverityItems ==
    Opt("severity", {PyStr("ERROR"), PyInt(500), PyStr("BOGUS")})

TimestampItems ==
    Opt("timestamp", {[py |-> "datetime", micros |-> 1500000]})

LabelItems == Opt("labels", {EmptyMap, "a" :> "b"})

HttpItems ==
    Opt("http_request",
        {EmptyMap,
         "status" :> 200,
         ("request_method" :> "GET") @@ ("cache_hit" :> TRUE)
            @@ ("validated_with_origin_server" :> TRUE) @@ ("bogus" :> 1)})

OperationItems ==
    Opt("operation",
        {("producer" :> "p") @@ ("id" :> "1"),
         ("producer" :> "p") @@ ("id" :> "1") @@ ("first" :> TRUE),
         ("producer" :> "p") @@ ("id" :> "1") @@ ("last" :> TRUE),
         "producer" :> "p",
         "id" :> "1"})

EntryMappings ==
    {a @@ b @@ c @@ d @@ e @@ f @@ g @@ h :
        a \in ScalarItems, b \in PayloadItems, c \in ResourceItems,
        d \in SeverityItems, e \in TimestampItems, f \in LabelItems,
        g \in HttpItems, h \in OperationItems}

\* The entries write_entries is called with.
EntryPool ==
    {"text_payload" :> "hello",
     ("severity" :> PyStr("ERROR")) @@ ("labels" :> ("a" :> "b")),
     "operation" :> ("producer" :> "p"),
     "resource" :> EmptyMap,
     "severity" :> PyStr("BOGUS")}

LoggerNames == {PyNone, PyStr("projects/p1/logs/l1")}
DefaultResources == {PyNone, "type" :> "global"}
DefaultLabels == {PyNone, "env" :> "prod"}

SinkMappings ==
    [name : {"", "projects/p1/sinks/s1"}, destination : Destinations,
     filter : Filters]

----------------------------------------------------------------------------
(* The calls.                                                              *)

Failures == {Raise(e) : e \in RpcErrors}

\* A call about to run: the function, its arguments and the reply the
\* server will give to the RPC it issues.
Init ==
    /\ rpc_log = <<>>
    /\ result = Pending
    /\ \/ /\ method = "list_entries"
          /\ request \in
                [projects : {<<"p1">>, <<"p1", "p2">>}, filter_ : Filters,
                 order_by : {"", "timestamp desc"}, page_size : PageSizes,
                 page_token : PageTokens,
                 reply : {Return(PageIterator(p, t)) :
                             p \in SeqUpTo(EntryPbPool, MaxPage),
                             t \in IteratorTokens} \cup Failures]
       \/ /\ method = "write_entries"
          /\ request \in
                [entries : SeqUpTo(EntryPool, MaxEntries),
                 logger_name : LoggerNames, resource : DefaultResources,
                 labels : DefaultLabels,
                 reply : {Return(PyNone)} \cup Failures]
       \/ /\ method = "logger_delete"
          /\ request \in
                [project : Projects, logger_name : {"l1", "l2"},
                 reply : {Return(PyNone)} \cup Failures]
       \/ /\ method = "list_sinks"
          /\ request \in
                [project : Projects, page_size : PageSizes,
                 page_token : PageTokens,
                 reply : {Return(PageIterator(p, t)) :
                             p \in SeqUpTo(ServerSinks, MaxPage),
                             t \in IteratorTokens} \cup Failures]
       \/ /\ method = "sink_create"
          /\ request \in
                [project : Projects, sink_name : SinkNames, filter_ : Filters,
                 destination : Destinations,
                 reply : {Return(PyNone)} \cup Failures]
       \/ /\ method = "sink_get"
          /\ request \in
                [project : Projects, sink_name : SinkNames,
                 reply : {Return(s) : s \in ServerSinks} \cup Failures]
       \/ /\ method = "sink_update"
          /\ request \in
                [project : Projects, sink_name : SinkNames, filter_ : Filters,
                 destination : Destinations,
                 reply : {Return(s) : s \in ServerSinks} \cup Failures]
       \/ /\ method = "sink_delete"
          /\ request \in
                [project : Projects, sink_name : SinkNames,
                 reply : {Return(PyNone)} \cup Failures]

Call_list_entries ==
    /\ method = "list_entries"
    /\ result.kind = "pending"
    /\ LET out == list_entries(request.projects, request.filter_,
                               request.order_by, request.page_size,
                               request.page_token, request.reply)
       IN  rpc_log' = out.rpc_log /\ result' = out.result
    /\ UNCHANGED <<method, request>>

Call_write_entries ==
    /\ method = "write_entries"
    /\ result.kind = "pending"
    /\ LET out == write_entries(request.entries, request.logger_name,
                                request.resource, request.labels,
                                request.reply)
       IN  rpc_log' = out.rpc_log /\ result' = out.result
    /\ UNCHANGED <<method, request>>

Call_logger_delete ==
    /\ method = "logger_delete"
    /\ result.kind = "pending"
    /\ LET out == logger_delete(request.project, request.logger_name,
                                request.reply)
       IN  rpc_log' = out.rpc_log /\ result' = out.result
    /\ UNCHANGED <<method, request>>

Call_list_sinks ==
    /\ method = "list_sinks"
    /\ result.kind = "pending"
    /\ LET out == list_sinks(request.project, request.page_size,
                             request.page_token, request.reply)
       IN  rpc_log' = out.rpc_log /\ result' = out.result
    /\ UNCHANGED <<method, request>>

Call_sink_create ==
    /\ method = "sink_create"
    /\ result.kind = "pending"
    /\ LET out == sink_create(request.project, request.sink_name,
                              request.filter_, request.destination,
                              request.reply)
       IN  rpc_log' = out.rpc_log /\ result' = out.result
    /\ UNCHANGED <<method, request>>

Call_sink_get ==
    /\ method = "sink_get"
    /\ result.kind = "pending"
    /\ LET out == sink_get(request.project, request.sink_name, request.reply)
       IN  rpc_log' = out.rpc_log /\ result' = out.result
    /\ UNCHANGED <<method, request>>

Call_sink_update ==
    /\ method = "sink_update"
    /\ result.kind = "pending"
    /\ LET out == sink_update(request.project, request.sink_name,
                              request.filter_, request.destination,
                              request.reply)
       IN  rpc_log' = out.rpc_log /\ result' = out.result
    /\ UNCHANGED <<method, request>>

Call_sink_delete ==
    /\ method = "sink_delete"
    /\ result.kind = "pending"
    /\ LET out == sink_delete(request.project, request.sink_name,
                              request.reply)
       IN  rpc_log' = out.rpc_log /\ result' = out.result
    /\ UNCHANGED <<method, request>>

Next ==
    \/ Call_list_entries
    \/ Call_write_entries
    \/ Call_logger_delete
    \/ Call_list_sinks
    \/ Call_sink_create
    \/ Call_sink_get
    \/ Call_sink_update
    \/ Call_sink_delete

Spec == Init /\ [][Next]_vars

----------------------------------------------------------------------------
(* The converters on their own: the argument is drawn at the start and the *)
(* one step applies the function to it.                                    *)

ConvInit ==
    /\ rpc_log = <<>>
    /\ result = Pending
    /\ \/ /\ method = "_log_entry_mapping_to_pb"
          /\ request \in {[arg |-> m] : m \in EntryMappings}
       \/ /\ method = "_log_entry_pb_to_mapping"
          /\ request \in {[arg |-> pb] : pb \in EntryPbs}
       \/ /\ method = "_log_sink_pb_to_mapping"
          /\ request \in {[arg |-> m] : m \in SinkMappings}
       \/ /\ method = "_build_paging_options"
          /\ request \in {[arg |-> t] : t \in PageTokens}

Conv_log_entry_mapping_to_pb ==
    /\ method = "_log_entry_mapping_to_pb"
    /\ result.kind = "pending"
    /\ result' = _log_entry_mapping_to_pb(request.arg)
    /\ UNCHANGED <<method, request, rpc_log>>

Conv_log_entry_pb_to_mapping ==
    /\ method = "_log_entry_pb_to_mapping"
    /\ result.kind = "pending"
    /\ result' = Return(_log_entry_pb_to_mapping(request.arg))
    /\ UNCHANGED <<method, request, rpc_log>>

\* LogSink(name=, filter=, destination=) and back to a mapping.
Conv_log_sink_pb_to_mapping ==
    /\ method = "_log_sink_pb_to_mapping"
    /\ result.kind = "pending"
    /\ result' = Return(_log_sink_pb_to_mapping(
                    LogSink(request.arg.name, request.arg.filter,
                            request.arg.destination)))
    /\ UNCHANGED <<method, request, rpc_log>>

Conv_build_paging_options ==
    /\ method = "_build_paging_options"
    /\ result.kind = "pending"
    /\ result' = Return(_build_paging_options(request.arg))
    /\ UNCHANGED <<method, request, rpc_log>>

ConvNext ==
    \/ Conv_log_entry_mapping_to_pb
    \/ Conv_log_entry_pb_to_mapping
    \/ Conv_log_sink_pb_to_mapping
    \/ Conv_build_paging_options

ConvSpec == ConvInit /\ [][ConvNext]_vars

----------------------------------------------------------------------------
(* Properties.                                                             *)

Done == result.kind # "pending"

PublicMethods ==
    {"list_entries", "write_entries", "logger_delete", "list_sinks",
     "sink_create", "sink_get", "sink_update", "sink_delete"}

\* The server's reply is a GaxError whose cause carries status.
ReplyIsGaxError(status) ==
    /\ request.reply.kind = "raise"
    /\ request.reply.value.py = "GaxError"
    /\ request.reply.value.cause.code = status

RequestSinkPath ==
    "projects/" \o request.project \o "/sinks/" \o request.sink_name

\* An entry mapping the conversion accepts: its resource has a type, its
\* severity, when a string, names a severity, its operation has producer
\* and id, and its proto_payload names its type.
Convertible(m) ==
    /\ "resource" \in DOMAIN m => "type" \in DOMAIN m["resource"]
    /\ "severity" \in DOMAIN m =>
          m["severity"] \in {PyStr("ERROR"), PyInt(500)}
    /\ "operation" \in DOMAIN m =>
          {"producer", "id"} \subseteq DOMAIN m["operation"]
    /\ "proto_payload" \in DOMAIN m => "@type" \in DOMAIN m["proto_payload"]

\* C1: sink_get, sink_update and sink_delete turn a transport error of
\* status NOT_FOUND into NotFound carrying projects/<project>/sinks/<name>,
\* and re-raise any other error of the RPC as it is.
C1_NotFoundElseReraised ==
    (/\ method \in {"sink_get", "sink_update", "sink_delete"}
     /\ Done
     /\ request.reply.kind = "raise")
    => IF ReplyIsGaxError("NOT_FOUND")
       THEN result = [kind |-> "raise",
                      value |-> [py |-> "NotFound",
                                 message |-> RequestSinkPath]]
       ELSE result = [kind |-> "raise", value |-> request.reply.value]

C1_Witness ==
    /\ method = "sink_delete"
    /\ Done
    /\ ReplyIsGaxError("NOT_FOUND")
    /\ result.value.py = "NotFound"

\* C2: sink_create calls create_sink with parent projects/<project> and a
\* sink named projects/<project>/sinks/<name>; FAILED_PRECONDITION becomes
\* Conflict carrying that path, every other failure is re-raised as it is.
C2_CreateConflict ==
    (method = "sink_create" /\ Done)
    => /\ Len(rpc_log) = 1
       /\ rpc_log[1].rpc = "create_sink"
       /\ rpc_log[1].args.parent = "projects/" \o request.project
       /\ rpc_log[1].args.sink.name = RequestSinkPath
       /\ ReplyIsGaxError("FAILED_PRECONDITION")
             => result = [kind |-> "raise",
                          value |-> [py |-> "Conflict",
                                     message |-> RequestSinkPath]]
       /\ (request.reply.kind = "raise"
           /\ ~ReplyIsGaxError("FAILED_PRECONDITION"))
             => result = [kind |-> "raise", value |-> request.reply.value]

C2_Witness ==
    /\ method = "sink_create"
    /\ Done
    /\ ReplyIsGaxError("FAILED_PRECONDITION")
    /\ request.project = "p1"
    /\ request.sink_name = "s1"
    /\ result.value.py = "Conflict"

\* C3 as stated: every call of a public method issues exactly one RPC,
\* whatever its arguments.
C3_ExactlyOneRpc ==
    (method \in PublicMethods /\ Done) => Len(rpc_log) = 1

\* C3 as amended: every call of a public method issues exactly one RPC,
\* except that write_entries issues none when the conversion of one of
\* its entries raises.
C3_OneRpcUnlessConversionFails ==
    (method \in PublicMethods /\ Done)
    => Len(rpc_log) =
          IF /\ method = "write_entries"
             /\ \E i \in 1..Len(request.entries) :
                   ~Convertible(request.entries[i])
          THEN 0 ELSE 1

C3_Witness ==
    /\ method = "write_entries"
    /\ Done
    /\ Len(request.entries) = 1
    /\ ~Convertible(request.entries[1])
    /\ rpc_log = <<>>

\* C4: write_entries with n convertible entries issues one
\* write_log_entries call with n messages, the i-th the conversion of the
\* i-th mapping, logger_name, resource and labels as given, and
\* partial_success false.
C4_OneBatchInOrder ==
    (/\ method = "write_entries"
     /\ Done
     /\ \A i \in 1..Len(request.entries) : Convertible(request.entries[i]))
    => /\ Len(rpc_log) = 1
       /\ rpc_log[1].rpc = "write_log_entries"
       /\ Len(rpc_log[1].args.entries) = Len(request.entries)
       /\ \A i \in 1..Len(request.entries) :
             Return(rpc_log[1].args.entries[i]) =
                _log_entry_mapping_to_pb(request.entries[i])
       /\ rpc_log[1].args.logger_name = request.logger_name
       /\ rpc_log[1].args.resource = request.resource
       /\ rpc_log[1].args.labels = request.labels
       /\ rpc_log[1].args.partial_success = FALSE

C4_Witness ==
    /\ method = "write_entries"
    /\ Done
    /\ Len(request.entries) = 3
    /\ request.entries[1] # request.entries[2]
    /\ Len(rpc_log) = 1
    /\ Len(rpc_log[1].args.entries) = 3

\* C5: list_entries and list_sinks hand the RPC the first-page sentinel
\* exactly when page_token is None and the caller's token otherwise (the
\* empty string as the empty string); the token returned is None exactly
\* when the iterator's token is empty, and that token otherwise.
C5_PageTokens ==
    (method \in {"list_entries", "list_sinks"} /\ Done)
    => /\ Len(rpc_log) = 1
       /\ (rpc_log[1].args.options.page_token
              = [py |-> "object", id |-> "INITIAL_PAGE"])
          <=> (request.page_token = [py |-> "None"])
       /\ request.page_token # [py |-> "None"]
             => rpc_log[1].args.options.page_token = request.page_token
       /\ result.kind = "return"
             => /\ (result.value.token = [py |-> "None"])
                   <=> (request.reply.value.page_token.s = "")
                /\ request.reply.value.page_token.s # ""
                      => result.value.token = request.reply.value.page_token

C5_Witness ==
    /\ method = "list_sinks"
    /\ result.kind = "return"
    /\ request.page_token = PyStr("")
    /\ rpc_log[1].args.options.page_token = PyStr("")
    /\ request.reply.value.page_token = PyStr("")
    /\ result.value.token = PyNone

\* C6: when the update RPC succeeds, sink_update returns the mapping
\* {name: projects/<project>/sinks/<name>, filter, destination} of the
\* message it sent, whatever the server returned, and that message carries
\* all three fields.
C6_UpdateReturnsRequest ==
    (method = "sink_update" /\ Done /\ request.reply.kind = "return")
    => /\ result = [kind |-> "return",
                    value |-> [name |-> RequestSinkPath,
                               filter |-> request.filter_,
                               destination |-> request.destination]]
       /\ Len(rpc_log) = 1
       /\ rpc_log[1].args.sink.name = RequestSinkPath
       /\ rpc_log[1].args.sink.filter = request.filter_
       /\ rpc_log[1].args.sink.destination = request.destination

C6_Witness ==
    /\ method = "sink_update"
    /\ result.kind = "return"
    /\ request.reply.value.filter # request.filter_
    /\ request.reply.value.destination # request.destination
    /\ result.value.filter = request.filter_

NineKeys ==
    {"log_name", "resource", "severity", "insert_id", "timestamp", "labels",
     "text_payload", "json_payload", "proto_payload"}

\* C7: the mapping of an entry message has the nine unconditional keys,
\* http_request if and only if the message's http_request is not the
\* default one, operation if and only if its operation is not the default
\* one, and no other key.
C7_KeysIffNonDefault ==
    (method = "_log_entry_pb_to_mapping" /\ Done)
    => /\ NineKeys \subseteq DOMAIN result.value
       /\ DOMAIN result.value \subseteq
             NineKeys \cup {"http_request", "operation"}
       /\ ("http_request" \in DOMAIN result.value)
          <=> (request.arg.http_request # HttpRequest)
       /\ ("operation" \in DOMAIN result.value)
          <=> (request.arg.operation # LogEntryOperation)

\* C8: a sink mapping with name, destination and filter, made a LogSink
\* and converted back, gives exactly these three keys with the same values.
C8_SinkRoundTrip ==
    (method = "_log_sink_pb_to_mapping" /\ Done)
    => /\ DOMAIN result.value = {"name", "destination", "filter"}
       /\ result.value.name = request.arg.name
       /\ result.value.destination = request.arg.destination
       /\ result.value.filter = request.arg.filter

C8_Witness ==
    /\ method = "_log_sink_pb_to_mapping"
    /\ Done
    /\ request.arg.name = "projects/p1/sinks/s1"
    /\ request.arg.destination # request.arg.filter
    /\ result.value.destination = "storage.googleapis.com/b"

C10_NoRpcWhenConversionFails ==
    (/\ method = "write_entries"
     /\ Done
     /\ \E i \in 1..Len(request.entries) : ~Convertible(request.entries[i]))
    => /\ rpc_log = <<>>
       /\ result.kind = "raise"
       /\ result.value.py \in {"KeyError", "ValueError"}

C10_Witness ==
    /\ method = "write_entries"
    /\ Done
    /\ Len(request.entries) = 3
    /\ Convertible(request.entries[1])
    /\ Convertible(request.entries[2])
    /\ ~Convertible(request.entries[3])
    /\ rpc_log = <<>>
    /\ result.kind = "raise"

====
